---- MODULE Spec2Model ----
(***************************************************************************)
(* Model of pager-decoder.py: the rtl_fm -> multimon-ng -> HTTP POST       *)
(* pipeline.  Text is modelled as sequences of one-character strings, the  *)
(* pty as a sequence of bytes, the regular expressions as matchers over    *)
(* character sequences, and the main program as a state machine with one   *)
(* action per statement group, including the signal handler frames.        *)
(***************************************************************************)
EXTENDS Integers, Sequences, FiniteSets, TLC

VARIABLES pc, frames, handlers, rtl_fm, multimon, platform, pending,
          nEmits, nSignals, buf, msg_count, cur, posts, logs, termReqs,
          exitStatus, dispatched, consumed, decoded

vars == <<pc, frames, handlers, rtl_fm, multimon, platform, pending,
          nEmits, nSignals, buf, msg_count, cur, posts, logs, termReqs,
          exitStatus, dispatched, consumed, decoded>>

(***************************************************************************)
(* Bounds of the model.                                                    *)
(***************************************************************************)
MaxEmits == 2

MaxSignals == 2

(***************************************************************************)
(* Program constants.                                                      *)
(***************************************************************************)
ReadSize == 4096

LogTrunc == 80

(***************************************************************************)
(* Characters and bytes.  A byte below 0x80 is written as its character;   *)
(* the two bytes of the UTF-8 encoding of U+00E9 are "xC3" and "xA9".      *)
(***************************************************************************)
NL == "\n"

Digits == {"0", "1", "2", "3", "4", "5", "6", "7", "8", "9"}

DigitSeq == <<"0", "1", "2", "3", "4", "5", "6", "7", "8", "9">>

Whitespace == {" ", "\t", "\r", "\n", "\f"}

Min(a, b) == IF a < b THEN a ELSE b

Take(s, n) == SubSeq(s, 1, Min(n, Len(s)))

Drop(s, n) == SubSeq(s, n + 1, Len(s))

(* bytes.decode('utf-8', errors='replace') of one chunk *)
RECURSIVE DecodeFrom(_, _)
DecodeFrom(bs, i) ==
    IF i > Len(bs) THEN <<>>
    ELSE IF bs[i] = "xC3"
         THEN IF i < Len(bs) /\ bs[i + 1] = "xA9"
              THEN <<"U+00E9">> \o DecodeFrom(bs, i + 2)
              ELSE <<"U+FFFD">> \o DecodeFrom(bs, i + 1)
    ELSE IF bs[i] = "xA9"
         THEN <<"U+FFFD">> \o DecodeFrom(bs, i + 1)
    ELSE <<bs[i]>> \o DecodeFrom(bs, i + 1)

Decode(bs) == DecodeFrom(bs, 1)

(***************************************************************************)
(* str.strip(), int(), and the pieces of the regular expressions.          *)
(***************************************************************************)
RECURSIVE SkipClass(_, _, _)
SkipClass(s, i, class) ==
    IF i <= Len(s) /\ s[i] \in class THEN SkipClass(s, i + 1, class) ELSE i

RECURSIVE SkipClassBack(_, _, _)
SkipClassBack(s, i, class) ==
    IF i >= 1 /\ s[i] \in class THEN SkipClassBack(s, i - 1, class) ELSE i

Strip(s) ==
    SubSeq(s, SkipClass(s, 1, Whitespace), SkipClassBack(s, Len(s), Whitespace))

HasLit(s, i, lit) ==
    /\ i >= 1
    /\ i + Len(lit) - 1 <= Len(s)
    /\ SubSeq(s, i, i + Len(lit) - 1) = lit

DigitVal(c) == (CHOOSE i \in 1..10 : DigitSeq[i] = c) - 1

RECURSIVE ToInt(_)
ToInt(ds) ==
    IF ds = <<>> THEN 0
    ELSE ToInt(SubSeq(ds, 1, Len(ds) - 1)) * 10 + DigitVal(ds[Len(ds)])

NoGroups == [ok |-> FALSE, g1 |-> <<>>, g2 |-> <<>>, g3 |-> <<>>, g4 |-> <<>>]

\* ^POCSAG(\d+): Address:\s+(\d+)\s+Function:\s+(\d)   the shared head;
\* next is the index of the first character after group 3
MatchHead(s) ==
    LET b1 == SkipClass(s, 7, Digits)
        a0 == SkipClass(s, b1 + 10, Whitespace)
        a1 == SkipClass(s, a0, Digits)
        f0 == SkipClass(s, a1, Whitespace)
        g0 == SkipClass(s, f0 + 9, Whitespace)
    IN  IF /\ HasLit(s, 1, <<"P", "O", "C", "S", "A", "G">>)
           /\ b1 > 7
           /\ HasLit(s, b1, <<":", " ", "A", "d", "d", "r", "e", "s", "s", ":">>)
           /\ a0 > b1 + 10
           /\ a1 > a0
           /\ f0 > a1
           /\ HasLit(s, f0, <<"F", "u", "n", "c", "t", "i", "o", "n", ":">>)
           /\ g0 > f0 + 9
           /\ g0 <= Len(s)
           /\ s[g0] \in Digits
        THEN [ok |-> TRUE, g1 |-> SubSeq(s, 7, b1 - 1),
              g2 |-> SubSeq(s, a0, a1 - 1), g3 |-> <<s[g0]>>, next |-> g0 + 1]
        ELSE [ok |-> FALSE, g1 |-> <<>>, g2 |-> <<>>, g3 |-> <<>>, next |-> 0]

\* the tail  \s+<label>\s+(.*)  after the head
MatchLabelled(s, label) ==
    LET h  == MatchHead(s)
        t0 == SkipClass(s, h.next, Whitespace)
        c0 == SkipClass(s, t0 + Len(label), Whitespace)
    IN  IF /\ h.ok
           /\ t0 > h.next
           /\ HasLit(s, t0, label)
           /\ c0 > t0 + Len(label)
        THEN [ok |-> TRUE, g1 |-> h.g1, g2 |-> h.g2, g3 |-> h.g3,
              g4 |-> SubSeq(s, c0, Len(s))]
        ELSE NoGroups

POCSAG_ALPHA(s) == MatchLabelled(s, <<"A", "l", "p", "h", "a", ":">>)

POCSAG_NUMERIC(s) == MatchLabelled(s, <<"N", "u", "m", "e", "r", "i", "c", ":">>)

\* ^POCSAG(\d+): Address:\s+(\d+)\s+Function:\s+(\d)\s*$
POCSAG_TONE(s) ==
    LET h == MatchHead(s)
    IN  IF h.ok /\ SkipClass(s, h.next, Whitespace) = Len(s) + 1
        THEN [ok |-> TRUE, g1 |-> h.g1, g2 |-> h.g2, g3 |-> h.g3, g4 |-> <<>>]
        ELSE NoGroups

\* does  \[(\d+)\]  match at index p
BracketAt(s, p) ==
    LET d1 == SkipClass(s, p + 1, Digits)
    IN  /\ p <= Len(s)
        /\ s[p] = "["
        /\ d1 > p + 1
        /\ d1 <= Len(s)
        /\ s[d1] = "]"

\* the greedy prefix gives up characters from the right: the last bracket wins
LastBracket(s) ==
    LET B == {p \in 5..Len(s) : BracketAt(s, p)}
    IN  IF B = {} THEN 0 ELSE CHOOSE p \in B : \A q \in B : q <= p

\* ^FLEX.*\[(\d+)\]\s*(.*)
FLEX_RE(s) ==
    LET p  == LastBracket(s)
        d1 == SkipClass(s, p + 1, Digits)
        c0 == SkipClass(s, d1 + 1, Whitespace)
    IN  IF HasLit(s, 1, <<"F", "L", "E", "X">>) /\ p > 0
        THEN [ok |-> TRUE, g1 |-> SubSeq(s, p + 1, d1 - 1),
              g2 |-> SubSeq(s, c0, Len(s)), g3 |-> <<>>, g4 |-> <<>>]
        ELSE NoGroups

Call(proto, addr, func, content, baud) ==
    [proto |-> proto, addr |-> addr, func |-> func, content |-> content,
     baud |-> baud]

\* the tone-only pattern without its end anchor, tried before the others
ParseLineToneFirst(raw) ==
    LET line == Strip(raw)
        h == MatchHead(line)
        n == POCSAG_NUMERIC(line)
        a == POCSAG_ALPHA(line)
        f == FLEX_RE(line)
    IN  IF line = <<>> THEN <<>>
        ELSE IF h.ok THEN <<Call("POCSAG", h.g2, h.g3, <<>>, h.g1)>>
        ELSE IF a.ok THEN <<Call("POCSAG", a.g2, a.g3, a.g4, a.g1)>>
        ELSE IF n.ok THEN <<Call("POCSAG", n.g2, n.g3, n.g4, n.g1)>>
        ELSE IF f.ok THEN <<Call("FLEX", f.g1, <<"0">>, f.g2, <<"1", "6", "0", "0">>)>>
        ELSE <<>>

\* a catch-all branch that forwards an unmatched line as a FLEX message
ParseLineFallback(raw) ==
    LET line == Strip(raw)
        a == POCSAG_ALPHA(line)
        n == POCSAG_NUMERIC(line)
        t == POCSAG_TONE(line)
        f == FLEX_RE(line)
    IN  IF line = <<>> THEN <<>>
        ELSE IF a.ok THEN <<Call("POCSAG", a.g2, a.g3, a.g4, a.g1)>>
        ELSE IF n.ok THEN <<Call("POCSAG", n.g2, n.g3, n.g4, n.g1)>>
        ELSE IF t.ok THEN <<Call("POCSAG", t.g2, t.g3, <<>>, t.g1)>>
        ELSE IF f.ok THEN <<Call("FLEX", f.g1, <<"0">>, f.g2, <<"1", "6", "0", "0">>)>>
        ELSE <<Call("FLEX", <<"0">>, <<"0">>, line, <<"1", "6", "0", "0">>)>>

(* parse_line: the post_message calls the line causes, in order *)
ParseLine(raw) ==
    LET line == Strip(raw)
        a == POCSAG_ALPHA(line)
        n == POCSAG_NUMERIC(line)
        t == POCSAG_TONE(line)
        f == FLEX_RE(line)
    IN  IF line = <<>> THEN <<>>
        ELSE IF a.ok THEN <<Call("POCSAG", a.g2, a.g3, a.g4, a.g1)>>
        ELSE IF n.ok THEN <<Call("POCSAG", n.g2, n.g3, n.g4, n.g1)>>
        ELSE IF t.ok THEN <<Call("POCSAG", t.g2, t.g3, <<>>, t.g1)>>
        ELSE IF f.ok THEN <<Call("FLEX", f.g1, <<"0">>, f.g2, <<"1", "6", "0", "0">>)>>
        ELSE <<>>

(* json.dumps({...}) in post_message *)
Body(c) ==
    [protocol |-> c.proto, capcode |-> ToInt(c.addr), address |-> ToInt(c.addr),
     function |-> ToInt(c.func), content |-> c.content,
     baudRate |-> ToInt(c.baud)]

\* the slice one character short
LogContentOffByOne(content) == Take(content, LogTrunc - 1)

(* content[:80] in the success log line *)
LogContent(content) == Take(content, LogTrunc)

LogEntry(kind) ==
    [kind |-> kind, n |-> 0, proto |-> "", baud |-> <<>>, addr |-> <<>>,
     func |-> <<>>, content |-> <<>>]

SuccessLog(n, c) ==
    [kind |-> "msg", n |-> n, proto |-> c.proto, baud |-> c.baud,
     addr |-> c.addr, func |-> c.func, content |-> LogContent(c.content)]

(***************************************************************************)
(* The read loop's line splitting: line, buf = buf.split('\n', 1)          *)
(***************************************************************************)
IndexOf(s, c) ==
    LET I == {i \in 1..Len(s) : s[i] = c}
    IN  IF I = {} THEN 0 ELSE CHOOSE i \in I : \A j \in I : i <= j

HasNewline(s) == IndexOf(s, NL) # 0

SplitLine(s) == SubSeq(s, 1, IndexOf(s, NL) - 1)

\* the line buffer cut at the last newline instead of the first
SplitRestLast(s) ==
    LET I == {i \in 1..Len(s) : s[i] = NL}
    IN  Drop(s, CHOOSE i \in I : \A j \in I : j <= i)

SplitRest(s) == Drop(s, IndexOf(s, NL))

(***************************************************************************)
(* What the decoder can write to the pty in one write, as bytes.           *)
(***************************************************************************)
Pieces ==
    { <<"x">>, <<"\n">>, <<"F", "L", "E", "X", "[", "7", "]", " ", "a", "\r", "\n">>, <<"xC3", "xA9", "\n", "x">> }

(***************************************************************************)
(* Initial state: the interpreter has started, nothing has run.            *)
(***************************************************************************)
Init ==
    /\ pc = "start"
    /\ frames = <<>>
    /\ handlers = {}
    /\ rtl_fm = "none"
    /\ multimon = "none"
    /\ platform \in {"EIO", "EOF"}
    /\ pending = <<>>
    /\ nEmits = 0
    /\ nSignals = 0
    /\ buf = <<>>
    /\ msg_count = 0
    /\ cur = <<>>
    /\ posts = <<>>
    /\ logs = <<>>
    /\ termReqs = <<>>
    /\ exitStatus = "none"
    /\ dispatched = <<>>
    /\ consumed = <<>>
    /\ decoded = <<>>

Running == pc # "exited" /\ frames = <<>>

loopVars == <<buf, msg_count, cur, posts, dispatched, consumed, decoded>>

envVars == <<rtl_fm, multimon, platform, pending, nEmits, nSignals>>

(***************************************************************************)
(* main(): startup.                                                        *)
(***************************************************************************)
Startup ==
    /\ Running /\ pc = "start"
    /\ logs' = Append(logs, LogEntry("Starting pager decoder"))
    /\ pc' = "spawnA"
    /\ UNCHANGED <<frames, handlers, envVars, loopVars, termReqs, exitStatus>>

SpawnA ==
    /\ Running /\ pc = "spawnA"
    /\ rtl_fm' = "running"
    /\ pc' = "spawnB"
    /\ UNCHANGED <<frames, handlers, multimon, platform, pending, nEmits,
                   nSignals, loopVars, logs, termReqs, exitStatus>>

SpawnB ==
    /\ Running /\ pc = "spawnB"
    /\ multimon' = "running"
    /\ pc' = "logrun"
    /\ UNCHANGED <<frames, handlers, rtl_fm, platform, pending, nEmits,
                   nSignals, loopVars, logs, termReqs, exitStatus>>

LogRunning ==
    /\ Running /\ pc = "logrun"
    /\ logs' = Append(logs, LogEntry("Pipeline running"))
    /\ pc' = "sigterm"
    /\ UNCHANGED <<frames, handlers, envVars, loopVars, termReqs, exitStatus>>

InstallSIGTERM ==
    /\ Running /\ pc = "sigterm"
    /\ handlers' = handlers \cup {"SIGTERM"}
    /\ pc' = "sigint"
    /\ UNCHANGED <<frames, envVars, loopVars, logs, termReqs, exitStatus>>

InstallSIGINT ==
    /\ Running /\ pc = "sigint"
    /\ handlers' = handlers \cup {"SIGINT"}
    /\ pc' = "select"
    /\ UNCHANGED <<frames, envVars, loopVars, logs, termReqs, exitStatus>>

(***************************************************************************)
(* main(): the read loop.                                                  *)
(***************************************************************************)
MasterReadable == pending # <<>> \/ multimon = "exited"

SelectTimeout ==
    /\ Running /\ pc = "select"
    /\ ~MasterReadable
    /\ UNCHANGED vars

SelectReady ==
    /\ Running /\ pc = "select"
    /\ MasterReadable
    /\ pc' = "read"
    /\ UNCHANGED <<frames, handlers, envVars, loopVars, logs, termReqs,
                   exitStatus>>

ReadData ==
    /\ Running /\ pc = "read"
    /\ pending # <<>>
    /\ \E k \in 1..Min(Len(pending), ReadSize) :
          /\ pending' = Drop(pending, k)
          /\ consumed' = consumed \o Take(pending, k)
          /\ decoded' = decoded \o Decode(Take(pending, k))
          /\ buf' = buf \o Decode(Take(pending, k))
    /\ pc' = "drain"
    /\ UNCHANGED <<frames, handlers, rtl_fm, multimon, platform, nEmits,
                   nSignals, msg_count, cur, posts, dispatched, logs, termReqs,
                   exitStatus>>

ReadEOF ==
    /\ Running /\ pc = "read"
    /\ pending = <<>> /\ multimon = "exited" /\ platform = "EOF"
    /\ buf' = buf \o Decode(<<>>)
    /\ pc' = "drain"
    /\ UNCHANGED <<frames, handlers, envVars, msg_count, cur, posts,
                   dispatched, consumed, decoded, logs, termReqs, exitStatus>>

ReadError ==
    /\ Running /\ pc = "read"
    /\ pending = <<>> /\ multimon = "exited" /\ platform = "EIO"
    /\ pc' = "cleanup"
    /\ frames' = <<"log">>
    /\ UNCHANGED <<handlers, envVars, loopVars, logs, termReqs, exitStatus>>

DispatchLine ==
    /\ Running /\ pc = "drain"
    /\ HasNewline(buf)
    /\ \E line \in {SplitLine(buf)} : \E calls \in {ParseLine(line)} :
          /\ buf' = SplitRest(buf)
          /\ dispatched' = Append(dispatched, line)
          /\ IF calls = <<>>
             THEN /\ pc' = "drain"
                  /\ UNCHANGED <<msg_count, cur, posts>>
             ELSE /\ msg_count' = msg_count + 1
                  /\ cur' = calls
                  /\ \E body \in {Body(calls[1])} :
                        posts' = Append(posts,
                            [body |-> body, result |-> "pending",
                             lineNo |-> Len(dispatched) + 1])
                  /\ pc' = "post"
    /\ UNCHANGED <<frames, handlers, envVars, consumed, decoded, logs,
                   termReqs, exitStatus>>

DrainDone ==
    /\ Running /\ pc = "drain"
    /\ ~HasNewline(buf)
    /\ pc' = "select"
    /\ UNCHANGED <<frames, handlers, envVars, loopVars, logs, termReqs,
                   exitStatus>>

PostOk ==
    /\ Running /\ pc = "post"
    /\ logs' = Append(logs, SuccessLog(msg_count, cur[1]))
    /\ cur' = <<>>
    /\ posts' = [posts EXCEPT ![Len(posts)].result = "ok"]
    /\ pc' = "drain"
    /\ UNCHANGED <<frames, handlers, envVars, buf, msg_count, dispatched,
                   consumed, decoded, termReqs, exitStatus>>

\* the POST error is not caught in post_message: it reaches the read
\* loop's except OSError and ends the loop
PostFailEscapes ==
    /\ Running /\ pc = "post"
    /\ cur' = <<>>
    /\ posts' = [posts EXCEPT ![Len(posts)].result = "fail"]
    /\ pc' = "cleanup"
    /\ frames' = <<"log">>
    /\ UNCHANGED <<handlers, envVars, buf, msg_count, dispatched, consumed,
                   decoded, logs, termReqs, exitStatus>>

PostFail ==
    /\ Running /\ pc = "post"
    /\ logs' = Append(logs, LogEntry("POST error"))
    /\ cur' = <<>>
    /\ posts' = [posts EXCEPT ![Len(posts)].result = "fail"]
    /\ pc' = "drain"
    /\ UNCHANGED <<frames, handlers, envVars, buf, msg_count, dispatched,
                   consumed, decoded, termReqs, exitStatus>>

(***************************************************************************)
(* cleanup(): one frame per invocation, the innermost one runs.            *)
(***************************************************************************)
Top == frames[Len(frames)]

SetTop(step) == [frames EXCEPT ![Len(frames)] = step]

CleanupLog ==
    /\ pc # "exited" /\ frames # <<>> /\ Top = "log"
    /\ logs' = Append(logs, LogEntry("Shutting down..."))
    /\ frames' = SetTop("termB")
    /\ UNCHANGED <<pc, handlers, envVars, loopVars, termReqs, exitStatus>>

CleanupTermB ==
    /\ pc # "exited" /\ frames # <<>> /\ Top = "termB"
    /\ termReqs' = Append(termReqs, "multimon")
    /\ frames' = SetTop("termA")
    /\ UNCHANGED <<pc, handlers, envVars, loopVars, logs, exitStatus>>

CleanupTermA ==
    /\ pc # "exited" /\ frames # <<>> /\ Top = "termA"
    /\ termReqs' = Append(termReqs, "rtl_fm")
    /\ frames' = SetTop("exit")
    /\ UNCHANGED <<pc, handlers, envVars, loopVars, logs, exitStatus>>

CleanupExit ==
    /\ pc # "exited" /\ frames # <<>> /\ Top = "exit"
    /\ pc' = "exited"
    /\ exitStatus' = "0"
    /\ frames' = <<>>
    /\ UNCHANGED <<handlers, envVars, loopVars, logs, termReqs>>

(***************************************************************************)
(* The environment: signals, and the decoder process.                      *)
(***************************************************************************)
Signal ==
    /\ pc # "exited"
    /\ nSignals < MaxSignals
    /\ nSignals' = nSignals + 1
    /\ \E sig \in {"SIGTERM", "SIGINT"} :
          IF sig \in handlers
          THEN /\ frames' = Append(frames, "log")
               /\ UNCHANGED <<pc, exitStatus>>
          ELSE /\ pc' = "exited"
               /\ exitStatus' = IF sig = "SIGTERM" THEN "killed by SIGTERM"
                                ELSE "KeyboardInterrupt"
               /\ frames' = <<>>
    /\ UNCHANGED <<handlers, rtl_fm, multimon, platform, pending, nEmits,
                   loopVars, logs, termReqs>>

DecoderEmit ==
    /\ pc # "exited"
    /\ multimon = "running"
    /\ nEmits < MaxEmits
    /\ nEmits' = nEmits + 1
    /\ \E piece \in Pieces : pending' = pending \o piece
    /\ UNCHANGED <<pc, frames, handlers, rtl_fm, multimon, platform, nSignals,
                   loopVars, logs, termReqs, exitStatus>>

DecoderExit ==
    /\ pc # "exited"
    /\ multimon = "running"
    /\ multimon' = "exited"
    /\ UNCHANGED <<pc, frames, handlers, rtl_fm, platform, pending, nEmits,
                   nSignals, loopVars, logs, termReqs, exitStatus>>

ProgramStep ==
    \/ Startup \/ SpawnA \/ SpawnB \/ LogRunning
    \/ InstallSIGTERM \/ InstallSIGINT
    \/ SelectReady \/ ReadData \/ ReadEOF \/ ReadError
    \/ DispatchLine \/ DrainDone \/ PostOk \/ PostFail
    \/ CleanupLog \/ CleanupTermB \/ CleanupTermA \/ CleanupExit

Next ==
    \/ Startup \/ SpawnA \/ SpawnB \/ LogRunning
    \/ InstallSIGTERM \/ InstallSIGINT
    \/ SelectTimeout \/ SelectReady \/ ReadData \/ ReadEOF \/ ReadError
    \/ DispatchLine \/ DrainDone \/ PostOk \/ PostFail
    \/ CleanupLog \/ CleanupTermB \/ CleanupTermA \/ CleanupExit
    \/ Signal \/ DecoderEmit \/ DecoderExit

Spec == Init /\ [][Next]_vars

\* the runs in which no signal arrives, with the program always taking its
\* next step: the interpreter keeps running, and select() and urlopen() return
\* within their timeouts
QuietNext ==
    \/ Startup \/ SpawnA \/ SpawnB \/ LogRunning
    \/ InstallSIGTERM \/ InstallSIGINT
    \/ SelectTimeout \/ SelectReady \/ ReadData \/ ReadEOF \/ ReadError
    \/ DispatchLine \/ DrainDone \/ PostOk \/ PostFail
    \/ CleanupLog \/ CleanupTermB \/ CleanupTermA \/ CleanupExit
    \/ DecoderEmit \/ DecoderExit

FairSpec == Init /\ [][QuietNext]_vars /\ WF_vars(ProgramStep)

(***************************************************************************)
(* The line parser and the forwarder on their own: the read loop holds two *)
(* complete lines of decoder output in the Line Buffer.                    *)
(***************************************************************************)
Fill(n) == [i \in 1..n |-> "a"]

ParseCatalog ==
    { <<>>,
      <<" ", "\t", "\r">>,
      <<"g", "a", "r", "b", "a", "g", "e", " ", "l", "i", "n", "e">>,
      <<"P", "O", "C", "S", "A", "G", "1", "2", "0", "0", ":", " ", "A", "d", "d", "r", "e", "s", "s", ":", " ", "1", "2", "3", "4", "5", "6", "7", " ", " ", "F", "u", "n", "c", "t", "i", "o", "n", ":", " ", "0", " ", " ", "A", "l", "p", "h", "a", ":", " ", " ", " ", "h", "e", "l", "l", "o", " ", "w", "o", "r", "l", "d", "\r">>,
      <<"P", "O", "C", "S", "A", "G", "5", "1", "2", ":", " ", "A", "d", "d", "r", "e", "s", "s", ":", " ", "0", "0", "7", " ", "F", "u", "n", "c", "t", "i", "o", "n", ":", " ", "3", " ", "N", "u", "m", "e", "r", "i", "c", ":", " ", "0", "1", "2", "3", " ", "4", "5">>,
      <<"P", "O", "C", "S", "A", "G", "2", "4", "0", "0", ":", " ", "A", "d", "d", "r", "e", "s", "s", ":", " ", "5", " ", "F", "u", "n", "c", "t", "i", "o", "n", ":", " ", "1">>,
      <<"P", "O", "C", "S", "A", "G", "2", "4", "0", "0", ":", " ", "A", "d", "d", "r", "e", "s", "s", ":", " ", "5", " ", "F", "u", "n", "c", "t", "i", "o", "n", ":", " ", "1", " ", " ", "\r">>,
      <<"P", "O", "C", "S", "A", "G", "1", "2", "0", "0", ":", " ", "A", "d", "d", "r", "e", "s", "s", ":", " ", "9", " ", "F", "u", "n", "c", "t", "i", "o", "n", ":", " ", "2", " ", "A", "l", "p", "h", "a", ":", " ", "\r">>,
      <<"P", "O", "C", "S", "A", "G", "1", "2", "0", "0", ":", " ", "A", "d", "d", "r", "e", "s", "s", ":", " ", "9", " ", "F", "u", "n", "c", "t", "i", "o", "n", ":", " ", "2", " ", "A", "l", "p", "h", "a", ":">>,
      <<"P", "O", "C", "S", "A", "G", "1", "2", "0", "0", ":", " ", "A", "d", "d", "r", "e", "s", "s", ":", " ", "9", " ", "F", "u", "n", "c", "t", "i", "o", "n", ":", " ", "2", " ", "N", "u", "m", "e", "r", "i", "c", ":", " ", " ">>,
      <<"F", "L", "E", "X", ":", " ", "1", "6", "0", "0", "/", "2", "/", "A", " ", "[", "1", "2", "3", "4", "5", "]", " ", "h", "e", "l", "l", "o", " ", "w", "o", "r", "l", "d">>,
      <<"F", "L", "E", "X", "[", "1", "]", " ", "a", " ", "[", "2", "2", "]", " ", "b">>,
      <<"F", "L", "E", "X", "[", "7", "]">>,
      <<"F", "L", "E", "X", " ", "n", "o", " ", "c", "a", "p", "c", "o", "d", "e">>,
      <<"F", "L", "E", "X", "[", "1", "2", "a", "]", " ", "x">>,
      <<" ", " ", "P", "O", "C", "S", "A", "G", "1", "2", "0", "0", ":", " ", "A", "d", "d", "r", "e", "s", "s", ":", " ", "1", " ", "F", "u", "n", "c", "t", "i", "o", "n", ":", " ", "0", " ", "A", "l", "p", "h", "a", ":", " ", "l", "e", "a", "d">>,
      <<"P", "O", "C", "S", "A", "G", "1", "2", "0", "0", ":", " ", "A", "d", "d", "r", "e", "s", "s", ":", " ", "1", " ", "F", "u", "n", "c", "t", "i", "o", "n", ":", " ", "1", "2", " ", "A", "l", "p", "h", "a", ":", " ", "x">>,
      <<"P", "O", "C", "S", "A", "G", ":", " ", "A", "d", "d", "r", "e", "s", "s", ":", " ", "1", " ", "F", "u", "n", "c", "t", "i", "o", "n", ":", " ", "1">>,
      <<"x", "P", "O", "C", "S", "A", "G", "1", "2", "0", "0", ":", " ", "A", "d", "d", "r", "e", "s", "s", ":", " ", "1", " ", "F", "u", "n", "c", "t", "i", "o", "n", ":", " ", "0", " ", "A", "l", "p", "h", "a", ":", " ", "h", "i">>,
      <<"P", "O", "C", "S", "A", "G", "1", "2", "0", "0", ":", " ", "A", "d", "d", "r", "e", "s", "s", ":", " ", "1", " ", "F", "u", "n", "c", "t", "i", "o", "n", ":", " ", "0", " ", "A", "l", "p", "h", "a", ":", " ", "N", "u", "m", "e", "r", "i", "c", ":", " ", "5">>,
      <<"P", "O", "C", "S", "A", "G", "1", "2", "0", "0", ":", " ", "A", "d", "d", "r", "e", "s", "s", ":", " ", "1", " ", "F", "u", "n", "c", "t", "i", "o", "n", ":", " ", "0", " ", "A", "l", "p", "h", "a", ":", "h", "i">>,
      <<"P", "O", "C", "S", "A", "G", "1", "2", "0", "0", ":", " ", "A", "d", "d", "r", "e", "s", "s", ":", " ", "1", " ", "F", "u", "n", "c", "t", "i", "o", "n", ":", " ", "0", " ", "j", "u", "n", "k">>,
      <<"F", "L", "E", "X", "[", "8", "]", " ">> \o Fill(79),
      <<"F", "L", "E", "X", "[", "8", "]", " ">> \o Fill(80),
      <<"F", "L", "E", "X", "[", "8", "]", " ">> \o Fill(81),
      <<"P", "O", "C", "S", "A", "G", "1", "2", "0", "0", ":", " ", "A", "d", "d", "r", "e", "s", "s", ":", " ", "2", " ", "F", "u", "n", "c", "t", "i", "o", "n", ":", " ", "0", " ", "A", "l", "p", "h", "a", ":", " ">> \o Fill(81) }

ParseInit ==
    /\ pc = "drain"
    /\ frames = <<>>
    /\ handlers = {"SIGTERM", "SIGINT"}
    /\ rtl_fm = "running"
    /\ multimon = "running"
    /\ platform = "EIO"
    /\ pending = <<>>
    /\ nEmits = 0
    /\ nSignals = 0
    /\ \E l1 \in ParseCatalog, l2 \in ParseCatalog :
          /\ buf = l1 \o <<NL>> \o l2 \o <<NL>>
          /\ consumed = buf
          /\ decoded = buf
    /\ msg_count = 0
    /\ cur = <<>>
    /\ posts = <<>>
    /\ logs = <<LogEntry("Starting pager decoder"), LogEntry("Pipeline running")>>
    /\ termReqs = <<>>
    /\ exitStatus = "none"
    /\ dispatched = <<>>

ParseNext == DispatchLine \/ DrainDone \/ PostOk \/ PostFail

ParseSpec == ParseInit /\ [][ParseNext]_vars

(***************************************************************************)
(* Properties.                                                             *)
(***************************************************************************)
Range(s) == {s[i] : i \in 1..Len(s)}

CountNL(s) == Cardinality({i \in 1..Len(s) : s[i] = NL})

RECURSIVE JoinLines(_)
JoinLines(ls) ==
    IF ls = <<>> THEN <<>>
    ELSE JoinLines(SubSeq(ls, 1, Len(ls) - 1)) \o ls[Len(ls)] \o <<NL>>

PostsOf(i) == {j \in 1..Len(posts) : posts[j].lineNo = i}

Resolved == \A j \in 1..Len(posts) : posts[j].result # "pending"

CountResult(r) == Cardinality({j \in 1..Len(posts) : posts[j].result = r})

CountLogs(kind) == Cardinality({k \in 1..Len(logs) : logs[k].kind = kind})

FirstMatch(l) ==
    IF POCSAG_ALPHA(l).ok THEN "alpha"
    ELSE IF POCSAG_NUMERIC(l).ok THEN "numeric"
    ELSE IF POCSAG_TONE(l).ok THEN "tone"
    ELSE IF FLEX_RE(l).ok THEN "flex"
    ELSE "none"

WhitespaceOnly(raw) == \A i \in 1..Len(raw) : raw[i] \in Whitespace

Dropped(raw) == WhitespaceOnly(raw) \/ FirstMatch(Strip(raw)) = "none"

\* C1: once every POST has completed, the Message Counter equals the number
\* of successful POSTs, and every failed POST wrote one failure log line.
C1_CounterCountsSuccesses ==
    Resolved =>
        /\ msg_count = CountResult("ok")
        /\ CountLogs("POST error") = CountResult("fail")

\* C2: whenever the program has exited after a termination signal was
\* delivered, at whatever point of its run, both children were sent a
\* terminate request and the exit status is 0.
C2_SignalAlwaysCleanShutdown ==
    (pc = "exited" /\ nSignals > 0) =>
        /\ exitStatus = "0"
        /\ "multimon" \in Range(termReqs)
        /\ "rtl_fm" \in Range(termReqs)

\* C3: however the decoder output is split across reads, the lines
\* dispatched so far followed by the Line Buffer are exactly the text read so
\* far: every line went to parse_line once, whole and in order, nothing is
\* lost or duplicated, one line was dispatched per newline byte read, and
\* when the loop waits for more data the buffer holds only a partial line.
C3_EveryLineDispatchedOnceWhole ==
    /\ JoinLines(dispatched) \o buf = decoded
    /\ \A i \in 1..Len(dispatched) : NL \notin Range(dispatched[i])
    /\ Len(dispatched) + CountNL(buf) = CountNL(consumed)
    /\ pc \in {"select", "read"} => ~HasNewline(buf)
    /\ Range(consumed) \cap {"xC3", "xA9"} = {} => decoded = consumed

C3_Witness ==
    /\ pc = "select"
    /\ Len(dispatched) = 1
    /\ "U+FFFD" \in Range(dispatched[1])
    /\ buf = <<"x">>

\* C4: once the decoder process has exited, the program eventually sends
\* both children a terminate request and exits.
C4_DecoderExitLeadsToShutdown ==
    (multimon = "exited") ~>
        (pc = "exited" /\ {"multimon", "rtl_fm"} \subseteq Range(termReqs))

C5_AttemptsOnce ==
    \A i \in 1..Len(dispatched) :
        Cardinality(PostsOf(i)) =
            IF FirstMatch(Strip(dispatched[i])) = "none" THEN 0 ELSE 1

\* C5: a failed POST is caught and logged and the message dropped: every
\* dispatched line that matches a pattern has exactly one POST attempt, ever,
\* no text of the Line Buffer is lost, and the program leaves the read loop
\* only on a signal or on a read error of the pty of an exited decoder,
\* never because a POST failed.
C5_FailedPostDroppedLoopContinues ==
    /\ C5_AttemptsOnce
    /\ CountLogs("POST error") = CountResult("fail")
    /\ JoinLines(dispatched) \o buf = decoded
    /\ (pc = "cleanup" \/ (pc = "exited" /\ nSignals = 0)) =>
          /\ multimon = "exited"
          /\ pending = <<>>
          /\ platform = "EIO"
    /\ (nSignals = 0 /\ CountResult("fail") > 0 /\ pc # "exited") =>
          exitStatus = "none"

C5_Witness ==
    /\ Len(posts) = 2
    /\ posts[1].result = "fail"
    /\ posts[2].result = "ok"
    /\ posts[2].lineNo > posts[1].lineNo

\* C6: every dispatched line causes zero or one POST attempt, and the
\* message is the one of the first pattern that matches in the order alpha,
\* numeric, tone-only, FLEX.
C6_FirstMatchDeterminesMessage ==
    \A i \in 1..Len(dispatched) :
        LET l == Strip(dispatched[i])
            k == FirstMatch(l)
        IN  /\ Cardinality(PostsOf(i)) = IF k = "none" THEN 0 ELSE 1
            /\ \A j \in PostsOf(i) :
                  LET b == posts[j].body
                  IN  /\ k = "alpha" =>
                            b.protocol = "POCSAG" /\ b.content = POCSAG_ALPHA(l).g4
                      /\ k = "numeric" =>
                            b.protocol = "POCSAG" /\ b.content = POCSAG_NUMERIC(l).g4
                      /\ k = "tone" =>
                            b.protocol = "POCSAG" /\ b.content = <<>>
                      /\ k = "flex" =>
                            /\ b.protocol = "FLEX"
                            /\ b.content = FLEX_RE(l).g2
                            /\ b.address = ToInt(FLEX_RE(l).g1)
                            /\ b.function = 0
                            /\ b.baudRate = 1600

C6_Witness ==
    /\ Len(dispatched) = 2
    /\ Len(posts) = 2
    /\ FirstMatch(Strip(dispatched[1])) = "alpha"
    /\ posts[1].body.content = <<"N", "u", "m", "e", "r", "i", "c", ":", " ", "5">>
    /\ FirstMatch(Strip(dispatched[2])) = "flex"
    /\ posts[2].body.address = 22

\* a POCSAG line whose head is followed by nothing, or by an Alpha: or
\* Numeric: label with nothing after it
C7_NoPayload(raw) ==
    LET l == Strip(raw)
        h == MatchHead(l)
    IN  /\ h.ok
        /\ Strip(SubSeq(l, h.next, Len(l))) \in {<<>>, <<"A", "l", "p", "h", "a", ":">>, <<"N", "u", "m", "e", "r", "i", "c", ":">>}

\* C7: every dispatched POCSAG line without payload is forwarded with empty
\* content and the baud, address and function of the line.
C7_NoPayloadForwardedEmpty ==
    \A i \in 1..Len(dispatched) :
        C7_NoPayload(dispatched[i]) =>
            \E j \in PostsOf(i) :
                LET h == MatchHead(Strip(dispatched[i]))
                    b == posts[j].body
                IN  /\ b.content = <<>>
                    /\ b.baudRate = ToInt(h.g1)
                    /\ b.address = ToInt(h.g2)
                    /\ b.function = ToInt(h.g3)

\* C8: dispatching a line that is empty, whitespace-only or matches no
\* pattern makes no POST attempt, writes no log entry, leaves the Message
\* Counter unchanged and leaves the program running in the drain loop.
C8_UnmatchedLineSilentlyDropped ==
    [][(dispatched' # dispatched /\ Dropped(dispatched'[Len(dispatched')])) =>
          /\ posts' = posts
          /\ logs' = logs
          /\ msg_count' = msg_count
          /\ cur' = cur
          /\ pc' = "drain"
          /\ exitStatus' = exitStatus]_vars

C8_Witness ==
    /\ Len(dispatched) = 2
    /\ WhitespaceOnly(dispatched[1]) /\ dispatched[1] # <<>>
    /\ dispatched[2] = <<"g", "a", "r", "b", "a", "g", "e", " ", "l", "i", "n", "e">>
    /\ posts = <<>>
    /\ msg_count = 0
    /\ Len(logs) = 2

C9_ContentOf(raw) ==
    LET l == Strip(raw)
        k == FirstMatch(l)
    IN  IF k = "alpha" THEN POCSAG_ALPHA(l).g4
        ELSE IF k = "numeric" THEN POCSAG_NUMERIC(l).g4
        ELSE IF k = "flex" THEN FLEX_RE(l).g2
        ELSE <<>>

\* C9: the body of every POST carries the whole content captured from its
\* line, and the success log line of a forwarded message carries its first
\* 80 characters: exactly 80 when the content is longer, all of it otherwise.
C9_LogTruncatedBodyFull ==
    /\ \A j \in 1..Len(posts) :
          posts[j].body.content = C9_ContentOf(dispatched[posts[j].lineNo])
    /\ \A k \in 1..Len(logs) :
          logs[k].kind = "msg" =>
              LET full == posts[logs[k].n].body.content
              IN  /\ posts[logs[k].n].result = "ok"
                  /\ Len(full) > 80 =>
                        Len(logs[k].content) = 80
                        /\ logs[k].content = SubSeq(full, 1, 80)
                  /\ Len(full) <= 80 => logs[k].content = full

C9_Witness ==
    \E k \in 1..Len(logs) :
        /\ logs[k].kind = "msg"
        /\ Len(logs[k].content) = 80
        /\ Len(posts[logs[k].n].body.content) = 81

\* C10: every terminate request to Process A follows one to Process B, and
\* once a shutdown has started (its log line is written) and the program has
\* exited, both children were sent a terminate request and the status is 0,
\* also when a second signal arrived during the shutdown.
C10_ShutdownTerminatesBothInOrder ==
    /\ \A k \in 1..Len(termReqs) :
          termReqs[k] = "rtl_fm" =>
              \E j \in 1..(k - 1) : termReqs[j] = "multimon"
    /\ (pc = "exited" /\ CountLogs("Shutting down...") > 0) =>
          /\ exitStatus = "0"
          /\ "multimon" \in Range(termReqs)
          /\ "rtl_fm" \in Range(termReqs)

====
